---------------------------- MODULE Spec2Model ----------------------------
(***************************************************************************)
(* The crawl engine of urusai (src/crawler/crawler.go): Crawl's outer      *)
(* loop, the recursive depthFirst walk, extractLinks / normalize / accept, *)
(* and the stop conditions (context cancellation, wall-clock timeout,      *)
(* depth ceiling).                                                         *)
(*                                                                         *)
(* Strings are sequences of one-character strings, so that prefix tests,   *)
(* substring containment and URL parsing are computed, not assumed.  The   *)
(* alphabet is the letters h m a b x z k and the punctuation ':' '/' '%':  *)
(* no '#', '?', '@', '.' or digit occurs, so the fragment, query, userinfo *)
(* and dot-segment branches of net/url are never entered.                  *)
(*                                                                         *)
(* An HTML body is modelled by the sequence of href values of its anchor   *)
(* start tags, in document order: that is all extractLinks reads of it.    *)
(***************************************************************************)
EXTENDS Integers, Sequences, FiniteSets, TLC

VARIABLES
    cfg,          \* c.cfg: [MaxDepth, Timeout, MinSleep, MaxSleep]
    pc,           \* position of the single thread of control
    cancelled,    \* ctx.Err() != nil
    elapsed,      \* time.Since(c.startTime), in seconds
    links,        \* c.links: the Link Queue
    visited,      \* c.visited: the Visited Set
    depth,        \* the depth argument of the running depthFirst frame
    cur,          \* root / target: the URL being fetched or extracted, else <<>>
    body,         \* the page returned by the last successful fetch
    sleepDur,     \* the jitter drawn for the sleep in progress, microseconds
    linkFetched,  \* history: every URL a GET was issued for by depthFirst
    walkPops,     \* history: links popped by the walk in progress
    depthHit,     \* history: some walk was stopped by depth >= MaxDepth
    failedLink,   \* history: the target of a failed link fetch, until the
                  \* next GET is issued; <<>> otherwise
    failedRoot    \* history: the same for a failed root fetch

vars == << cfg, pc, cancelled, elapsed, links, visited, depth, cur,
           body, sleepDur, linkFetched, walkPops, depthHit, failedLink,
           failedRoot >>

-----------------------------------------------------------------------------
(* Bounds of the model *)

MaxDepthBound == 2
MaxTimeoutBound == 1
MaxClock == 2
MaxSleepBound == 1
IntBits == 3

-----------------------------------------------------------------------------
(* strings *)

Range(s) == { s[i] : i \in 1..Len(s) }

\* strings.HasPrefix
HasPrefix(s, p) == Len(s) >= Len(p) /\ SubSeq(s, 1, Len(p)) = p

\* strings.Contains
Contains(s, sub) ==
    \E i \in 1..(Len(s) - Len(sub) + 1) : SubSeq(s, i, i + Len(sub) - 1) = sub

\* strings.Index of a one-character string, 0 when absent (Go: -1)
IndexOf(s, ch) ==
    IF \E i \in 1..Len(s) : s[i] = ch
    THEN CHOOSE i \in 1..Len(s) : s[i] = ch /\ \A j \in 1..(i-1) : s[j] # ch
    ELSE 0

\* strings.LastIndex of a one-character string, 0 when absent
LastIndexOf(s, ch) ==
    IF \E i \in 1..Len(s) : s[i] = ch
    THEN CHOOSE i \in 1..Len(s) : s[i] = ch /\ \A j \in (i+1)..Len(s) : s[j] # ch
    ELSE 0

Letters == {"h", "m", "a", "b", "x", "z", "k"}
HexDigits == {"a", "b"}


-----------------------------------------------------------------------------
(* net/url, as far as normalize and accept use it *)

\* The *url.URL fields the crawler's calls read or write; err = TRUE stands
\* for the (nil, error) result of a failed parse.
URLRec(scheme, opaque, host, path, omit) ==
    [err |-> FALSE, Scheme |-> scheme, Opaque |-> opaque, Host |-> host,
     Path |-> path, OmitHost |-> omit]

URLErr ==
    [err |-> TRUE, Scheme |-> <<>>, Opaque |-> <<>>, Host |-> <<>>,
     Path |-> <<>>, OmitHost |-> FALSE]

\* url.getScheme: the leading run of letters up to a ':'; a leading ':' is
\* the error "missing protocol scheme"; any other character ends the scan
\* with no scheme.
getScheme(raw) ==
    LET stops == { i \in 1..Len(raw) : raw[i] \notin Letters }
    IN  IF stops = {}
        THEN [err |-> FALSE, scheme |-> <<>>, rest |-> raw]
        ELSE LET p == CHOOSE i \in stops : \A j \in stops : i <= j
             IN  IF raw[p] # ":"
                 THEN [err |-> FALSE, scheme |-> <<>>, rest |-> raw]
                 ELSE IF p = 1
                      THEN [err |-> TRUE, scheme |-> <<>>, rest |-> <<>>]
                      ELSE [err |-> FALSE, scheme |-> SubSeq(raw, 1, p - 1),
                            rest |-> SubSeq(raw, p + 1, Len(raw))]

\* url.unescape succeeds: every '%' is followed by two hexadecimal digits.
validEscapes(s) ==
    \A i \in 1..Len(s) :
        s[i] = "%" => /\ i + 2 <= Len(s)
                      /\ s[i+1] \in HexDigits
                      /\ s[i+2] \in HexDigits

\* url.parseHost succeeds: escapes are valid and what follows the last ':'
\* is a port, i.e. digits only (the alphabet has none, so it must be empty).
validHost(h) ==
    /\ validEscapes(h)
    /\ LastIndexOf(h, ":") \in {0, Len(h)}

\* url.parse(rawURL, viaRequest)
parse(raw, viaRequest) ==
    IF raw = <<>> /\ viaRequest THEN URLErr
    ELSE
    LET sch == getScheme(raw) IN
    IF sch.err THEN URLErr
    ELSE
    LET rest == sch.rest
        slash == IndexOf(rest, "/")
        segment == IF slash = 0 THEN rest ELSE SubSeq(rest, 1, slash - 1)
    IN
    IF ~HasPrefix(rest, <<"/">>) /\ sch.scheme # <<>>
        THEN URLRec(sch.scheme, rest, <<>>, <<>>, FALSE)
    ELSE IF ~HasPrefix(rest, <<"/">>) /\ viaRequest THEN URLErr
    ELSE IF ~HasPrefix(rest, <<"/">>) /\ Contains(segment, <<":">>) THEN URLErr
    ELSE
    IF /\ sch.scheme # <<>> \/ (~viaRequest /\ ~HasPrefix(rest, <<"/", "/", "/">>))
       /\ HasPrefix(rest, <<"/", "/">>)
    THEN LET auth0 == SubSeq(rest, 3, Len(rest))
             i == IndexOf(auth0, "/")
             authority == IF i = 0 THEN auth0 ELSE SubSeq(auth0, 1, i - 1)
             path == IF i = 0 THEN <<>> ELSE SubSeq(auth0, i, Len(auth0))
         IN  IF ~validHost(authority) \/ ~validEscapes(path) THEN URLErr
             ELSE URLRec(sch.scheme, <<>>, authority, path, FALSE)
    ELSE IF ~validEscapes(rest) THEN URLErr
         ELSE URLRec(sch.scheme, <<>>, <<>>, rest,
                     sch.scheme # <<>> /\ HasPrefix(rest, <<"/">>))

\* url.Parse
Parse(raw) == parse(raw, FALSE)

\* url.ParseRequestURI
ParseRequestURI(raw) == parse(raw, TRUE)

\* url.resolvePath without dot segments: the merged path, with one leading '/'
resolvePath(base, ref) ==
    LET full == IF ref = <<>> THEN base
                ELSE IF ref[1] # "/"
                     THEN SubSeq(base, 1, LastIndexOf(base, "/")) \o ref
                     ELSE ref
    IN  IF full = <<>> THEN <<>>
        ELSE IF full[1] = "/" THEN full ELSE <<"/">> \o full

\* (*URL).ResolveReference
ResolveReference(u, ref) ==
    LET scheme == IF ref.Scheme = <<>> THEN u.Scheme ELSE ref.Scheme IN
    IF ref.Scheme # <<>> \/ ref.Host # <<>>
    THEN URLRec(scheme, ref.Opaque, ref.Host, resolvePath(ref.Path, <<>>),
                ref.OmitHost)
    ELSE IF ref.Opaque # <<>>
    THEN URLRec(scheme, ref.Opaque, <<>>, <<>>, ref.OmitHost)
    ELSE IF ref.Path = <<>> /\ u.Opaque # <<>>
    THEN URLRec(scheme, u.Opaque, <<>>, <<>>, ref.OmitHost)
    ELSE URLRec(scheme, <<>>, u.Host, resolvePath(u.Path, ref.Path),
                ref.OmitHost)

\* (*URL).String
URLString(u) ==
    LET head == IF u.Scheme # <<>> THEN u.Scheme \o <<":">> ELSE <<>> IN
    IF u.Opaque # <<>> THEN head \o u.Opaque
    ELSE
    LET auth == IF (u.Scheme # <<>> \/ u.Host # <<>>)
                   /\ ~(u.OmitHost /\ u.Host = <<>>)
                THEN (IF u.Host # <<>> \/ u.Path # <<>>
                      THEN <<"/", "/">> ELSE <<>>) \o u.Host
                ELSE <<>>
        sep == IF u.Path # <<>> /\ u.Path[1] # "/" /\ u.Host # <<>>
               THEN <<"/">> ELSE <<>>
        slash == IndexOf(u.Path, "/")
        segment == IF slash = 0 THEN u.Path ELSE SubSeq(u.Path, 1, slash - 1)
        dot == IF head \o auth \o sep = <<>> /\ Contains(segment, <<":">>)
               THEN <<".", "/">> ELSE <<>>
    IN  head \o auth \o sep \o dot \o u.Path

-----------------------------------------------------------------------------
(* The configuration and the web the crawler runs against *)

\* cfg.RootURLs: "h://a/" and "h://b/x"
RootURLs == << <<"h", ":", "/", "/", "a", "/">>,
               <<"h", ":", "/", "/", "b", "/", "x">> >>

\* cfg.BlacklistedURLs: the one substring "k"
BlacklistedURLs == << <<"k">> >>

\* href values an anchor may carry
HrefAbs     == <<"h", ":", "/", "/", "a", "/", "x">>   \* absolute
HrefRel     == <<"z">>                                 \* relative path
HrefSchemeRel == <<"/", "/", "b", "/", "x">>           \* scheme-relative, a root
HrefEmpty   == <<>>                                    \* resolves to the base
HrefBadEsc  == <<"%">>                                 \* url.Parse fails
HrefBlkPath == <<"/", "k">>                            \* blacklisted, in the path
HrefBlkHost == <<"/", "/", "k", "/", "z">>             \* blacklisted, in the host
HrefOpaque  == <<"m", ":", "z">>                       \* mailto-like, no '/'
HrefBadHost == <<"/", "/", "%">>                       \* fails ParseRequestURI

Hrefs == { HrefAbs, HrefRel, HrefSchemeRel, HrefEmpty, HrefBadEsc,
           HrefBlkPath, HrefBlkHost, HrefOpaque, HrefBadHost }

\* The pages a fetch may return, each the hrefs of its anchors in document
\* order; <<>> is a page without anchors (or bytes that are not HTML).
Bodies ==
    { <<>>,
      <<HrefAbs, HrefAbs>>,
      <<HrefAbs, HrefBlkPath, HrefRel>>,
      <<HrefSchemeRel, HrefBadEsc>>,
      <<HrefOpaque, HrefBlkHost, HrefBadHost>> }

\* Go's int: two's complement, wrapping silently on overflow.  The build's
\* int has 64 bits; the model keeps the wrap-around at IntBits bits.
MaxInt == 2^(IntBits - 1) - 1

wrapInt(x) == ((x + 2^(IntBits - 1)) % 2^IntBits) - 2^(IntBits - 1)

\* The configurations a crawl is run with (all valid: MinSleep <= MaxSleep).
Configs ==
    { [MaxDepth |-> d, Timeout |-> t, MinSleep |-> lo, MaxSleep |-> hi] :
        d \in 0..MaxDepthBound, t \in {0, MaxTimeoutBound},
        lo \in {0}, hi \in {MaxSleepBound} }

\* Valid configurations (0 <= MinSleep <= MaxSleep) whose MaxSleep is the
\* largest int.
SleepConfigs ==
    [MaxDepth : {1}, Timeout : {0}, MinSleep : {0, 1, MaxInt},
     MaxSleep : {MaxInt}]

-----------------------------------------------------------------------------
(* src/crawler/crawler.go: the pure parts *)

\* Crawler.normalize
normalize(href, base) ==
    IF HasPrefix(href, <<"/", "/">>)
    THEN base.Scheme \o <<":">> \o href
    ELSE LET ref == Parse(href)
         IN  IF ref.err THEN <<>>
             ELSE URLString(ResolveReference(base, ref))

\* mutant: the blacklist entry is looked for at the start of the link only
blacklistedPrefixOnly(link, blacklist) ==
    \E i \in 1..Len(blacklist) : HasPrefix(link, blacklist[i])

\* the blacklist loop of Crawler.accept
blacklisted(link, blacklist) ==
    \E i \in 1..Len(blacklist) : Contains(link, blacklist[i])

\* mutant: accept without the lookup in c.visited
acceptWithoutSeen(link, vis, blacklist) ==
    IF link = <<>> THEN FALSE
    ELSE IF blacklisted(link, blacklist) THEN FALSE
    ELSE ~ParseRequestURI(link).err

\* mutant: accept without the call of url.ParseRequestURI
acceptNoValidation(link, vis, blacklist) ==
    IF link = <<>> THEN FALSE
    ELSE IF link \in vis THEN FALSE
    ELSE ~blacklisted(link, blacklist)

\* Crawler.accept, reading c.visited and c.cfg.BlacklistedURLs
accept(link, vis, blacklist) ==
    IF link = <<>> THEN FALSE
    ELSE IF link \in vis THEN FALSE
    ELSE IF blacklisted(link, blacklist) THEN FALSE
    ELSE ~ParseRequestURI(link).err

\* Crawler.extractLinks: the accepted, normalized hrefs in document order
RECURSIVE extractFrom(_, _, _, _)
extractFrom(hrefs, baseURL, vis, blacklist) ==
    IF hrefs = <<>> THEN <<>>
    ELSE LET href == normalize(Head(hrefs), baseURL)
             rest == extractFrom(Tail(hrefs), baseURL, vis, blacklist)
         IN  IF accept(href, vis, blacklist) THEN <<href>> \o rest ELSE rest

extractLinks(page, base, vis, blacklist) ==
    extractFrom(page, Parse(base), vis, blacklist)

\* mutant: the deadline is taken one second too late
isTimeoutReachedLate(timeout, since) ==
    IF timeout = 0 THEN FALSE ELSE since > timeout + 1

\* mutant: no special case for Timeout = 0
isTimeoutReachedNoZeroCase(timeout, since) == since > timeout

\* Crawler.isTimeoutReached
isTimeoutReached(timeout, since) ==
    IF timeout = 0 THEN FALSE ELSE since > timeout

\* http.Client.Do can only succeed for a scheme it has a transport for
fetchable(raw) == getScheme(raw).scheme = <<"h">>

\* mutant: every occurrence of the picked URL is removed
removeAtEvery(q, idx) == SelectSeq(q, LAMBDA e : e # q[idx])

\* c.links = append(c.links[:idx], c.links[idx+1:]...), idx counted from 1
removeAt(q, idx) == SubSeq(q, 1, idx - 1) \o SubSeq(q, idx + 1, Len(q))

-----------------------------------------------------------------------------
(* src/crawler/crawler.go: the Walk Controller *)

\* mutant: the loop head does not look at the context
crawlStopsIgnoringCtx(canc, c, since) ==
    isTimeoutReached(c.Timeout, since)

\* the stop test at the head of Crawl's loop
crawlStops(canc, c, since) ==
    canc \/ isTimeoutReached(c.Timeout, since)

\* mutant: depthFirst does not look at the context
walkStopsIgnoringCtx(d, canc, c, since) ==
    d >= c.MaxDepth \/ isTimeoutReached(c.Timeout, since)

\* mutant: depth > MaxDepth instead of depth >= MaxDepth
walkStopsOffByOne(d, canc, c, since) ==
    d > c.MaxDepth \/ canc \/ isTimeoutReached(c.Timeout, since)

\* the stop test at the head of depthFirst
walkStops(d, canc, c, since) ==
    d >= c.MaxDepth \/ canc \/ isTimeoutReached(c.Timeout, since)

\* mutant: the popped target is not recorded
markVisitedNever(vis, target) == vis

\* mutant: the map is replaced by one holding the target alone
markVisitedForgetting(vis, target) == {target}

\* c.visited[target] = struct{}{}
markVisited(vis, target) == vis \cup {target}

\* mutant: the queue is never found empty
queueEmptyNever(q) == FALSE

\* len(c.links) == 0, lines 72 and 161
queueEmpty(q) == Len(q) = 0

\* mutant: the root's links are appended to what the queue still holds
seedQueueAppending(old, extracted) == old \o extracted

\* c.links = c.extractLinks(body, root): the assignment replaces the queue
seedQueue(old, extracted) == extracted

\* mutant: after a failed link fetch the frame picks another queued link
afterLinkFetchErrTrySibling == "df_entry"

\* where control goes when the link fetch fails: `return`, line 173
afterLinkFetchErr == "df_return"

\* mutant: a failed root fetch is followed by a back-off sleep
afterRootFetchErrBackoff == "sleep"

\* mutant: after a failed root fetch the walk is entered all the same
afterRootFetchErrWalks == "df_entry"

\* where control goes when the root fetch fails: `continue`, line 68
afterRootFetchErr == "loop_head"

\* where control goes when depthFirst(ctx, 0) returns: the `for` of Crawl
afterWalk == "loop_head"

\* the argument of rand.Intn at line 178, in int arithmetic
jitterArg(c) == wrapInt(wrapInt(c.MaxSleep - c.MinSleep) + 1)

\* the values rand.Intn(MaxSleep-MinSleep+1)+MinSleep can take; rand.Intn(n)
\* returns a value of 0..n-1 and panics when n <= 0, which leaves no value
sleepChoices(c) ==
    IF jitterArg(c) <= 0 THEN {}
    ELSE { wrapInt(r + c.MinSleep) : r \in 0..(jitterArg(c) - 1) }

\* NewCrawler: an empty Visited Set, no queue, no start time yet
NewCrawler ==
    /\ pc = "idle"
    /\ cancelled = FALSE
    /\ elapsed = 0
    /\ links = <<>>
    /\ visited = {}
    /\ depth = 0
    /\ cur = <<>>
    /\ body = <<>>
    /\ sleepDur = 0
    /\ linkFetched = {}
    /\ walkPops = 0
    /\ depthHit = FALSE
    /\ failedLink = <<>>
    /\ failedRoot = <<>>

Init == cfg \in Configs /\ NewCrawler

\* the same construction, over the configurations with extreme sleep bounds
SleepInit == cfg \in SleepConfigs /\ NewCrawler

\* The wall clock advances, whatever the running Crawl is doing.
Tick ==
    /\ pc \notin {"idle", "done", "panicked"}
    /\ elapsed < MaxClock
    /\ elapsed' = elapsed + 1
    /\ UNCHANGED << cfg, pc, cancelled, links, visited, depth, cur,
                    body, sleepDur, linkFetched, walkPops,
                    depthHit, failedLink,
                    failedRoot >>

\* The caller's context is cancelled (signal or deadline), at any moment.
Cancel ==
    /\ pc \notin {"done", "panicked"}
    /\ ~cancelled
    /\ cancelled' = TRUE
    /\ UNCHANGED << cfg, pc, elapsed, links, visited, depth, cur,
                    body, sleepDur, linkFetched, walkPops,
                    depthHit, failedLink,
                    failedRoot >>

\* Crawl, line 57: c.startTime = time.Now()
CrawlStart ==
    /\ pc = "idle"
    /\ elapsed' = 0
    /\ pc' = "loop_head"
    /\ UNCHANGED << cfg, cancelled, links, visited, depth, cur, body,
                    sleepDur, linkFetched, walkPops,
                    depthHit, failedLink,
                    failedRoot >>

\* Crawl, lines 60-62: a stop condition holds at the loop head
CrawlReturn ==
    /\ pc = "loop_head"
    /\ crawlStops(cancelled, cfg, elapsed)
    /\ pc' = "done"
    /\ UNCHANGED << cfg, cancelled, elapsed, links, visited, depth,
                    cur, body, sleepDur, linkFetched, walkPops,
                    depthHit, failedLink,
                    failedRoot >>

\* Crawl, lines 60-65: no stop condition; pick a root and issue the GET
PickRoot ==
    /\ pc = "loop_head"
    /\ ~crawlStops(cancelled, cfg, elapsed)
    /\ \E i \in 1..Len(RootURLs) : cur' = RootURLs[i]
    /\ pc' = "root_fetch"
    /\ failedLink' = <<>>
    /\ failedRoot' = <<>>
    /\ UNCHANGED << cfg, cancelled, elapsed, links, visited, depth,
                    body, sleepDur, linkFetched, walkPops,
                    depthHit >>

\* Crawl, lines 66-69: the root fetch fails (transport error, or the
\* context was cancelled while the request was in flight)
RootFetchErr ==
    /\ pc = "root_fetch"
    /\ cur' = <<>>
    /\ pc' = afterRootFetchErr
    /\ failedRoot' = cur
    /\ UNCHANGED << cfg, cancelled, elapsed, links, visited, depth,
                    body, sleepDur, linkFetched, walkPops,
                    depthHit, failedLink >>

\* Crawl, line 65: the root fetch returns a page
RootFetchOk ==
    /\ pc = "root_fetch"
    /\ ~cancelled
    /\ fetchable(cur)
    /\ body' \in Bodies
    /\ pc' = "root_extract"
    /\ UNCHANGED << cfg, cancelled, elapsed, links, visited, depth,
                    cur, sleepDur, linkFetched, walkPops,
                    depthHit, failedLink,
                    failedRoot >>

\* Crawl, lines 71-76: seed the queue; enter the walk at depth 0 unless the
\* page yields no eligible link
SeedQueue ==
    /\ pc = "root_extract"
    /\ LET seeded == extractLinks(body, cur, visited, BlacklistedURLs)
       IN  /\ links' = seedQueue(links, seeded)
           /\ pc' = IF queueEmpty(seedQueue(links, seeded))
                    THEN "loop_head" ELSE "df_entry"
    /\ body' = <<>>
    /\ cur' = <<>>
    /\ depth' = 0
    /\ UNCHANGED << cfg, cancelled, elapsed, visited, sleepDur,
                    linkFetched, walkPops,
                    depthHit, failedLink,
                    failedRoot >>

\* depthFirst, lines 158-163: a stop condition holds, or the queue is empty
WalkStop ==
    /\ pc = "df_entry"
    /\ walkStops(depth, cancelled, cfg, elapsed) \/ queueEmpty(links)
    /\ pc' = "df_return"
    /\ depthHit' = (depthHit \/ depth >= cfg.MaxDepth)
    /\ UNCHANGED << cfg, cancelled, elapsed, links, visited, depth,
                    cur, body, sleepDur, linkFetched, walkPops,
                    failedLink,
                    failedRoot >>

\* depthFirst, lines 165-170: pop a random entry, mark it visited, issue
\* the GET; rand.Intn(len(c.links)) panics on a queue of length 0
WalkPop ==
    /\ pc = "df_entry"
    /\ ~walkStops(depth, cancelled, cfg, elapsed)
    /\ ~queueEmpty(links)
    /\ IF Len(links) = 0
       THEN /\ pc' = "panicked"
            /\ UNCHANGED << cur, links, visited, linkFetched, walkPops >>
       ELSE /\ \E idx \in 1..Len(links) :
                 /\ cur' = links[idx]
                 /\ links' = removeAt(links, idx)
                 /\ visited' = markVisited(visited, links[idx])
                 /\ linkFetched' = linkFetched \cup {links[idx]}
            /\ walkPops' = walkPops + 1
            /\ pc' = "link_fetch"
    /\ failedLink' = <<>>
    /\ failedRoot' = <<>>
    /\ UNCHANGED << cfg, cancelled, elapsed, depth, body, sleepDur,
                    depthHit >>

\* depthFirst, lines 171-174: the link fetch fails; this frame returns
LinkFetchErr ==
    /\ pc = "link_fetch"
    /\ cur' = <<>>
    /\ pc' = afterLinkFetchErr
    /\ failedLink' = cur
    /\ UNCHANGED << cfg, cancelled, elapsed, links, visited, depth,
                    body, sleepDur, linkFetched, walkPops,
                    depthHit, failedRoot >>

\* depthFirst, line 170: the link fetch returns a page
LinkFetchOk ==
    /\ pc = "link_fetch"
    /\ ~cancelled
    /\ fetchable(cur)
    /\ body' \in Bodies
    /\ pc' = "link_extract"
    /\ UNCHANGED << cfg, cancelled, elapsed, links, visited, depth,
                    cur, sleepDur, linkFetched, walkPops,
                    depthHit, failedLink,
                    failedRoot >>

\* depthFirst, lines 176-179: append the page's links, draw the jitter and
\* go to sleep; rand.Intn panics when its argument is not positive, and the
\* process ends
LinkExtract ==
    /\ pc = "link_extract"
    /\ links' = links \o extractLinks(body, cur, visited, BlacklistedURLs)
    /\ body' = <<>>
    /\ cur' = <<>>
    /\ IF sleepChoices(cfg) = {}
       THEN sleepDur' = 0 /\ pc' = "panicked"
       ELSE sleepDur' \in sleepChoices(cfg) /\ pc' = "sleep"
    /\ UNCHANGED << cfg, cancelled, elapsed, visited, depth,
                    linkFetched, walkPops,
                    depthHit, failedLink,
                    failedRoot >>

\* depthFirst, lines 179-181: the sleep ends; recurse with depth+1
SleepDone ==
    /\ pc = "sleep"
    /\ sleepDur' = 0
    /\ depth' = depth + 1
    /\ pc' = "df_entry"
    /\ UNCHANGED << cfg, cancelled, elapsed, links, visited, cur,
                    body, linkFetched, walkPops,
                    depthHit, failedLink,
                    failedRoot >>

\* a depthFirst frame returns: to the frame that called it (which has
\* nothing left to do but return), or from depth 0 to Crawl's loop
WalkReturn ==
    /\ pc = "df_return"
    /\ IF depth > 0
       THEN depth' = depth - 1 /\ pc' = "df_return" /\ walkPops' = walkPops
       ELSE depth' = depth /\ pc' = afterWalk /\ walkPops' = 0
    /\ UNCHANGED << cfg, cancelled, elapsed, links, visited, cur,
                    body, sleepDur, linkFetched,
                    depthHit, failedLink,
                    failedRoot >>

\* the steps of the crawler itself
Step ==
    \/ CrawlStart
    \/ CrawlReturn
    \/ PickRoot
    \/ RootFetchErr
    \/ RootFetchOk
    \/ SeedQueue
    \/ WalkStop
    \/ WalkPop
    \/ LinkFetchErr
    \/ LinkFetchOk
    \/ LinkExtract
    \/ SleepDone
    \/ WalkReturn

Next ==
    \/ Tick
    \/ Cancel
    \/ CrawlStart
    \/ CrawlReturn
    \/ PickRoot
    \/ RootFetchErr
    \/ RootFetchOk
    \/ SeedQueue
    \/ WalkStop
    \/ WalkPop
    \/ LinkFetchErr
    \/ LinkFetchOk
    \/ LinkExtract
    \/ SleepDone
    \/ WalkReturn

Spec == Init /\ [][Next]_vars

\* the crawler run with the configurations of SleepConfigs
SleepSpec == SleepInit /\ [][Next]_vars

\* the steps that wait for something outside the thread (a response, a
\* timer) or only move control
LightStep ==
    \/ CrawlStart
    \/ CrawlReturn
    \/ PickRoot
    \/ RootFetchErr
    \/ RootFetchOk
    \/ WalkStop
    \/ WalkPop
    \/ LinkFetchErr
    \/ LinkFetchOk
    \/ SleepDone
    \/ WalkReturn

\* the two calls of extractLinks
Extraction == SeedQueue \/ LinkExtract

\* Every fetch and every sleep completes and the thread keeps running: weak
\* fairness of its steps.  An extraction is enabled exactly at the two
\* positions that follow a successful fetch, so its weak fairness,
\* []<>~ENABLED <<Extraction>>_vars \/ []<><<Extraction>>_vars, is written
\* with the enabling condition spelled out.
FairSpec ==
    /\ Spec
    /\ WF_vars(LightStep)
    /\ \/ []<>(pc \notin {"root_extract", "link_extract"})
       \/ []<><<Extraction>>_vars

-----------------------------------------------------------------------------
(* Vocabulary of the properties *)

\* positions at which a GET is in flight
FetchPcs == {"root_fetch", "link_fetch"}

\* the session has run for more than the configured Timeout (> 0) seconds
TimedOut ==
    /\ pc # "idle"
    /\ cfg.Timeout > 0
    /\ elapsed > cfg.Timeout

\* the string contains a configured blacklist substring, at some position
HasBlacklisted(u) ==
    \E i \in 1..Len(BlacklistedURLs) :
        \E j \in 1..Len(u) :
            /\ j + Len(BlacklistedURLs[i]) - 1 <= Len(u)
            /\ \A k \in 1..Len(BlacklistedURLs[i]) :
                   u[j + k - 1] = BlacklistedURLs[i][k]

\* the candidates the page being extracted offers to accept
Candidates == { normalize(body[i], Parse(cur)) : i \in 1..Len(body) }

\* the same candidates, in document order
CandidateSeq == [i \in 1..Len(body) |-> normalize(body[i], Parse(cur))]

\* the page of the end-to-end scenario: two valid anchors and a blacklisted
\* one between them
ScenarioPage == <<HrefAbs, HrefBlkPath, HrefRel>>

\* positions at which extractLinks is about to run
ExtractPcs == {"root_extract", "link_extract"}

-----------------------------------------------------------------------------
(* C1..C10 *)

\* C1: once the context is cancelled, Crawl eventually returns, from any
\* position and at any depth, given that fetches and sleeps complete.
C1_CancelLeadsToReturn == cancelled ~> (pc = "done")

\* C1 witness: Crawl has returned on cancellation alone (no timeout is
\* configured) after having walked links.
C1_Witness ==
    /\ pc = "done"
    /\ cancelled
    /\ cfg.Timeout = 0
    /\ visited # {}

\* C2 as stated: once the elapsed time exceeds Timeout > 0, only a fetch
\* already in flight stands between the controller and its return, so the
\* controller has no jitter sleep going on or still to come.
C2_OnlyFetchInFlight == TimedOut => pc \notin {"link_extract", "sleep"}

\* C2 amended: once the elapsed time exceeds Timeout > 0 no new fetch is
\* issued; what is left is the fetch in flight and, after a link fetch,
\* its extraction and one jitter sleep.
C2_NoFetchAfterTimeout ==
    [][TimedOut => (pc' \in FetchPcs => pc \in FetchPcs)]_vars

\* C2 witness: the timeout has passed while the controller sleeps.
C2_Witness == TimedOut /\ pc = "sleep" /\ ~cancelled

C4_MaxDepthStopsCrawl == depthHit => pc \notin FetchPcs

\* C5: no link is fetched at depth >= MaxDepth; the k-th link of a walk is
\* fetched at depth k-1, so a walk pops at most MaxDepth links; with
\* MaxDepth = 0 no link is ever fetched and the Visited Set stays empty.
C5_DepthBound ==
    /\ walkPops <= cfg.MaxDepth
    /\ pc \in {"link_fetch", "link_extract", "sleep"} =>
           (depth < cfg.MaxDepth /\ walkPops = depth + 1)
    /\ cfg.MaxDepth = 0 =>
           (visited = {} /\ linkFetched = {} /\ pc # "link_fetch")

\* C5 witness: the last link a walk may fetch, at depth MaxDepth-1 >= 1.
C5_Witness ==
    /\ pc = "link_fetch"
    /\ depth >= 1
    /\ depth = cfg.MaxDepth - 1

\* C6: no fetch, by a walk or of a root, targets a URL that is already in
\* the Visited Set.
C6_NoRefetch ==
    [][(pc' \in FetchPcs /\ pc \notin FetchPcs) => cur' \notin visited]_vars

\* C7: every link placed on the Link Queue, by seeding or by appending, is
\* absent from the Visited Set at that moment.
C7_EnqueuedNotVisited ==
    [][/\ (pc = "root_extract" /\ pc' # "root_extract") =>
              \A i \in 1..Len(links') : links'[i] \notin visited'
       /\ (pc = "link_extract" /\ pc' # "link_extract") =>
              \A i \in (Len(links) + 1)..Len(links') :
                  links'[i] \notin visited']_vars

\* C7 witness: a visited page is being extracted and one of its anchors
\* resolves to a URL of the Visited Set, while the queue still has entries.
C7_Witness ==
    /\ pc = "link_extract"
    /\ Candidates \cap visited # {}
    /\ Len(links) > 0

\* C8: no entry of the Link Queue is a member of the Visited Set.
C8_QueueDisjointFromVisited ==
    \A i \in 1..Len(links) : links[i] \notin visited

C10_BlacklistedRejected ==
    /\ pc \in {"root_extract", "link_extract"} =>
           \A c \in Candidates :
               HasBlacklisted(c) => ~accept(c, visited, BlacklistedURLs)
    /\ \A i \in 1..Len(links) : ~HasBlacklisted(links[i])
    /\ \A u \in visited \cup linkFetched : ~HasBlacklisted(u)
    /\ pc = "link_fetch" => ~HasBlacklisted(cur)

\* C10 witness: the page being extracted by a walk carries a blacklisted
\* candidate, with the substring past the first character.
C10_Witness ==
    /\ pc = "link_extract"
    /\ \E c \in Candidates :
           HasBlacklisted(c) /\ ~HasPrefix(c, BlacklistedURLs[1])

-----------------------------------------------------------------------------
(* C11..C20 *)

\* C11: accept is a pure predicate.  For every candidate of an extraction
\* it is true exactly when the candidate is non-empty, is not in the Visited
\* Set, contains no blacklist substring and passes url.ParseRequestURI (a
\* conjunction, so the order of the four checks does not matter); the
\* extraction changes the queue only by the accepted candidates, in
\* document order, and leaves the Visited Set alone.
C11_AcceptIsPureConjunction ==
    [][(pc \in ExtractPcs /\ pc' # pc) =>
          LET ok(c) == /\ c # <<>>
                       /\ c \notin visited
                       /\ ~HasBlacklisted(c)
                       /\ ~ParseRequestURI(c).err
              kept == SelectSeq(CandidateSeq, ok)
          IN  /\ \A c \in Candidates :
                     accept(c, visited, BlacklistedURLs) <=> ok(c)
              /\ visited' = visited
              /\ links' = IF pc = "root_extract" THEN kept
                          ELSE links \o kept]_vars

\* C11 witness: the page being extracted has a candidate accept lets
\* through and one that fails the URI validation alone.
C11_Witness ==
    /\ pc \in ExtractPcs
    /\ \E c \in Candidates : accept(c, visited, BlacklistedURLs)
    /\ \E c \in Candidates :
           /\ c # <<>>
           /\ c \notin visited
           /\ ~HasBlacklisted(c)
           /\ ParseRequestURI(c).err

\* C12: the Visited Set only grows: every step of the controller, of the
\* clock and of the context keeps every URL that was in it.
C12_VisitedMonotone == [][visited \subseteq visited']_vars

\* C12 witness: a later outer-loop iteration is fetching its root while
\* the Visited Set still holds the URLs of two earlier visits.
C12_Witness ==
    /\ pc = "root_fetch"
    /\ Cardinality(visited) >= 2

\* C13: a walk is entered at depth 0 with the queue holding exactly the
\* accepted links of the root page just fetched, whatever the queue held
\* before.  Scenario: the first root page, fetched from h://a/, has two
\* valid anchors and a blacklisted one; the seeded queue is the two valid
\* links, and with MaxDepth = 1 a walk visits at most one link.
C13_FreshSeededQueue ==
    [][/\ (pc = "root_extract" /\ pc' = "df_entry") =>
              /\ depth' = 0
              /\ walkPops' = 0
              /\ links' # <<>>
              /\ links' = SelectSeq(CandidateSeq,
                               LAMBDA c : accept(c, visited, BlacklistedURLs))
       /\ (/\ pc = "root_extract" /\ pc' # pc
           /\ cur = RootURLs[1] /\ body = ScenarioPage /\ visited = {}) =>
              /\ pc' = "df_entry"
              /\ links' = << <<"h", ":", "/", "/", "a", "/", "x">>,
                             <<"h", ":", "/", "/", "a", "/", "z">> >>
       /\ cfg.MaxDepth = 1 => walkPops' <= 1]_vars

\* C13 witness: with MaxDepth = 1 and Timeout = 0, a walk that follows an
\* earlier one-visit walk is entered at depth 0 with the two valid links of
\* the scenario page as its queue.
C13_Witness ==
    /\ pc = "df_entry"
    /\ depth = 0
    /\ walkPops = 0
    /\ cfg.MaxDepth = 1
    /\ cfg.Timeout = 0
    /\ Cardinality(visited) = 1
    /\ links = << <<"h", ":", "/", "/", "a", "/", "x">>,
                  <<"h", ":", "/", "/", "a", "/", "z">> >>

\* C14: a failed link fetch ends its walk.  From the failure until the next
\* GET is issued the frames only return: no extraction, no append to the
\* queue, no sleep, no deeper frame; the next GET is a root fetch of the
\* outer loop; the failed URL is and stays in the Visited Set.
C14_LinkFetchErrorEndsWalk ==
    [][/\ (pc = "link_fetch" /\ pc' \notin {"link_fetch", "link_extract"}) =>
              /\ failedLink' = cur
              /\ cur \in visited'
       /\ failedLink # <<>> =>
              /\ pc \in {"df_return", "loop_head", "done"}
              /\ pc' \in {"df_return", "loop_head", "done", "root_fetch"}
              /\ links' = links
              /\ depth' <= depth
              /\ sleepDur' = 0
              /\ failedLink \in visited'
       /\ failedLink' # <<>> => pc' \in {"df_return", "loop_head", "done"}
      ]_vars

\* C14 witness: a link fetch failed below the top frame, the context is not
\* cancelled and the queue still holds siblings; the walk is unwinding.
C14_Witness ==
    /\ failedLink # <<>>
    /\ pc = "df_return"
    /\ depth >= 1
    /\ Len(links) > 0
    /\ ~cancelled
    /\ ~TimedOut

\* C15: a failed root fetch sends control straight back to the stop check
\* at the head of the outer loop: the Link Queue and the Visited Set are as
\* they were, no walk frame is entered and nothing sleeps until the next
\* root pick (or the return of Crawl).
C15_RootFetchErrorRestartsLoop ==
    [][/\ (pc = "root_fetch" /\ pc' \notin {"root_fetch", "root_extract"}) =>
              /\ failedRoot' = cur
              /\ pc' = "loop_head"
              /\ links' = links
              /\ visited' = visited
       /\ failedRoot # <<>> =>
              /\ pc \in {"loop_head", "done"}
              /\ pc' \in {"loop_head", "done", "root_fetch"}
              /\ links' = links
              /\ visited' = visited
              /\ sleepDur' = 0
              /\ walkPops' = 0
      ]_vars

\* C15 witness: a root fetch has failed although nothing stops the crawl;
\* the queue still holds what an earlier walk left and the Visited Set is
\* not empty.
C15_Witness ==
    /\ failedRoot # <<>>
    /\ pc = "loop_head"
    /\ Len(links) > 0
    /\ visited # {}
    /\ ~cancelled
    /\ ~TimedOut

\* C16 as stated: every sleep is followed by another link fetch of the same
\* walk, never by a return towards the outer loop: the frame entered when
\* the sleep ends pops and fetches a link.
C16_SleepThenLinkFetch ==
    [][(pc = "df_entry" /\ depth >= 1 /\ pc' # pc) => pc' = "link_fetch"]_vars

\* C16 amended: a sleep starts only after a successful link fetch and the
\* extraction of its page, as the step that follows the (depth+1)-th visit
\* of the walk, so never before the first root fetch nor after a root fetch
\* or a failed fetch; when it ends, the next frame of the same walk is
\* entered, which either fetches another link or returns.
C16_SleepFollowsLinkVisit ==
    [][/\ (pc' = "sleep" /\ pc # "sleep") =>
              /\ pc = "link_extract"
              /\ cur \in visited
              /\ failedLink = <<>> /\ failedRoot = <<>>
       /\ pc' = "sleep" =>
              /\ walkPops' = depth' + 1
              /\ sleepDur' \in sleepChoices(cfg)
       /\ pc' # "sleep" => sleepDur' = 0
       /\ (pc = "sleep" /\ pc' # pc) =>
              /\ pc' = "df_entry"
              /\ depth' = depth + 1
       /\ (pc = "df_entry" /\ depth >= 1 /\ pc' # pc) =>
              pc' \in {"link_fetch", "df_return"}
      ]_vars

\* C16 witness: the frame entered after a sleep has returned at the depth
\* cap, with links still queued and nothing else stopping the crawl: the
\* next fetch will be a root fetch.
C16_Witness ==
    /\ pc = "df_return"
    /\ depth >= 1
    /\ depth = cfg.MaxDepth
    /\ failedLink = <<>>
    /\ Len(links) > 0
    /\ ~cancelled
    /\ ~TimedOut

\* C17 as stated: once the context is cancelled no new fetch is issued, the
\* fetch in flight fails, and no link enters the Link Queue.
C17_NoAppendAfterCancel ==
    [][cancelled =>
          /\ pc' \in FetchPcs => pc' = pc
          /\ (pc \in FetchPcs /\ pc' # pc) => pc' \in {"loop_head", "df_return"}
          /\ Len(links') <= Len(links)
          /\ Range(links') \subseteq Range(links)]_vars

\* C17 amended: once the context is cancelled no new fetch is issued and
\* the fetch in flight fails without touching the queue; the queue changes
\* only through the extraction of the one page whose fetch had succeeded
\* before the cancellation, and no further page reaches an extraction.
C17_CancelStopsFetching ==
    [][cancelled =>
          /\ pc' \in FetchPcs => pc' = pc
          /\ (pc \in FetchPcs /\ pc' # pc) =>
                 /\ pc' \in {"loop_head", "df_return"}
                 /\ links' = links
          /\ pc' \in ExtractPcs => pc' = pc
          /\ links' # links => pc \in ExtractPcs]_vars

\* C17 witness: the context was cancelled after a link fetch had returned
\* its page; the extraction about to run has a link to append.
C17_Witness ==
    /\ cancelled
    /\ pc = "link_extract"
    /\ \E c \in Candidates : accept(c, visited, BlacklistedURLs)

\* C18: a walk step that passes its stop checks picks a position of the
\* queue, removes that one entry (the entries before it stay, the entries
\* after it move up by one, the length drops by one) and adds the picked
\* URL, the one it then fetches, to the Visited Set, which is otherwise
\* unchanged.
C18_PopRemovesOnePosition ==
    [][(pc = "df_entry" /\ pc' = "link_fetch") =>
          /\ Len(links') = Len(links) - 1
          /\ \E idx \in 1..Len(links) :
                 /\ cur' = links[idx]
                 /\ \A i \in 1..(idx - 1) : links'[i] = links[i]
                 /\ \A i \in idx..Len(links') : links'[i] = links[i + 1]
          /\ visited' = visited \cup {cur'}
          /\ depth' = depth]_vars

\* C18 witness: a link was popped at depth >= 1 and is being fetched while
\* another occurrence of the same URL is still queued.
C18_Witness ==
    /\ pc = "link_fetch"
    /\ depth >= 1
    /\ cur \in Range(links)

\* C19: for every configuration with 0 <= MinSleep <= MaxSleep, the jitter
\* drawn after a successful link fetch is a d with MinSleep <= d <= MaxSleep
\* and every value of that range can be drawn; in particular the draw
\* yields a value and the crawler goes to sleep.
C19_SleepInRange ==
    /\ pc = "sleep" => sleepDur \in cfg.MinSleep..cfg.MaxSleep
    /\ pc = "link_extract" =>
           sleepChoices(cfg) = cfg.MinSleep..cfg.MaxSleep
    /\ pc # "panicked"

\* C20: the index pick is never taken from an empty queue.  An extraction
\* of the root that yields nothing sends control back to the head of the
\* outer loop; a walk step that finds the queue empty returns without
\* popping or fetching; so every pop has a queued link to pick and the pick
\* never fails.
C20_NoPickFromEmptyQueue ==
    [][/\ (pc = "root_extract" /\ pc' # pc) =>
              (pc' = IF links' = <<>> THEN "loop_head" ELSE "df_entry")
       /\ (pc = "df_entry" /\ links = <<>> /\ pc' # pc) =>
              /\ pc' = "df_return"
              /\ links' = links
              /\ visited' = visited
              /\ linkFetched' = linkFetched
       /\ (pc = "df_entry" /\ pc' = "link_fetch") => Len(links) >= 1
       /\ pc = "df_entry" => pc' # "panicked"]_vars

\* C20 witness: a walk step below the top frame finds the queue empty while
\* no stop condition holds.
C20_Witness ==
    /\ pc = "df_entry"
    /\ links = <<>>
    /\ depth >= 1
    /\ ~walkStops(depth, cancelled, cfg, elapsed)

=============================================================================
